---- MODULE Spec2Model ----
(***************************************************************************)
(* Model of the Vision client: the OTP sign-in / sign-up flow (AuthForm,   *)
(* OTPModal, services/api.ts, PrivateRoute, the router of App.tsx) and the *)
(* repository dashboard (filter / sort pipeline, formatDate, the AI insight *)
(* modal).                                                                 *)
(***************************************************************************)
EXTENDS Integers, Sequences, FiniteSets, TLC

(***************************************************************************)
(* Bounds of the model.                                                    *)
(***************************************************************************)
MaxRequests == 3        \* HTTP requests issued in one behaviour

(***************************************************************************)
(* Values.  null and an absent body field are kept apart from strings.     *)
(***************************************************************************)
NULL   == "<null>"
ABSENT == "<absent>"

Routes         == {"/signin", "/signup", "/dashboard"}
FullNameInputs == {"", "A", "Al"}
EmailInputs    == {"a@x.io", "b@x.io"}
OtpInputs      == {"", "12345", "123456"}
AccountIds     == {"acc1"}
AccessTokens   == {"jwt1"}
TokenTypes     == {"bearer"}

\* z.string().email(): the well-formed addresses among the inputs
IsEmail(s) == s \in {"a@x.io", "b@x.io"}

\* JavaScript truthiness of a string-or-null value
Truthy(v) == v # NULL /\ v # ""

VARIABLES
  route,         \* current location of the router
  prView,        \* what PrivateRoute rendered: "none", "pending", "outlet", "null"
  lastNav,       \* the last navigation: who asked for it, after which
                 \* navigation a redirect came, and localStorage at the call
  form,          \* react-hook-form values of AuthForm
  authForm,      \* AuthForm state: isLoading, errorMessage, accountData
  credReq,       \* createUser / login call awaited by the mounted AuthForm
  otpModal,      \* OTPModal state
  modalOpener,   \* index in requests of the call whose result mounted the modal
  verifyReqs,    \* verifySignup / verifyLogin calls still awaited
  timers,        \* pending setTimeout callbacks of OTPModal
  localStorage,  \* window.localStorage
  requests,      \* every request handed to axios, in order, with its outcome
  resendReq,     \* resendOTP call awaited by the mounted OTPModal
  onSuccess      \* the onSuccess prop of OTPModal: "navigate" or "none"

authVars == <<route, prView, lastNav, form, authForm, credReq, otpModal,
              modalOpener, verifyReqs, timers, localStorage, requests,
              resendReq, onSuccess>>

VARIABLES
  clock,                     \* new Date(): the time and the length of the
                             \* calendar month before it
  repositories,              \* dashboard: the loaded repositories
  loading,
  searchTerm,
  filters,                   \* language, minStars, recentActivity, sortBy
  activeQuickFilter,
  filteredRepositories,      \* the useMemo list of the dashboard
  filteredRepositoriesState  \* the useState list of the useEffect dashboard

dashVars == <<clock, repositories, loading, searchTerm, filters,
              activeQuickFilter, filteredRepositories,
              filteredRepositoriesState>>

VARIABLES
  fdInput,       \* formatDate: the argument, <<>> for null
  fdResult       \* formatDate: the string returned, <<>> before the call

formatVars == <<fdInput, fdResult>>

VARIABLES
  selectedRepo,  \* dashboard: the repository of the insight modal, <<>> for null
  isModalOpen,
  insightModal,  \* AIInsightModal state: insights, isLoading, error
  fetches,       \* fetchInsights calls still awaiting the generative-AI endpoint
  fetchCount     \* requests sent to the endpoint so far

aiVars == <<selectedRepo, isModalOpen, insightModal, fetches, fetchCount>>

vars == <<authVars, dashVars, formatVars, aiVars>>

(***************************************************************************)
(* services/api.ts                                                         *)
(***************************************************************************)
createUser(data) ==
  [endpoint |-> "/signup", name |-> data.name, email |-> data.email,
   otp |-> ABSENT, status |-> "pending"]

login(data) ==
  [endpoint |-> "/login", name |-> ABSENT, email |-> data.email,
   otp |-> ABSENT, status |-> "pending"]

verifySignup(data) ==
  [endpoint |-> "/verify-signup", name |-> ABSENT, email |-> data.email,
   otp |-> data.otp, status |-> "pending"]

verifyLogin(data) ==
  [endpoint |-> "/verify-login", name |-> ABSENT, email |-> data.email,
   otp |-> data.otp, status |-> "pending"]

\* resendOTP(email, formType): the signup / login endpoints again
resendOTP(email, formType) ==
  IF formType = "signup"
    THEN [endpoint |-> "/signup", name |-> "Resend", email |-> email,
          otp |-> ABSENT, status |-> "pending"]
    ELSE [endpoint |-> "/login", name |-> ABSENT, email |-> email,
          otp |-> ABSENT, status |-> "pending"]

\* axios rejections: backend detail, bare status codes, network failure
ErrorDetail  == [detail |-> "detail from backend", status |-> 400,
                 code |-> "ERR_BAD_REQUEST", message |-> "Request failed"]
ErrorStatus(s) == [detail |-> "", status |-> s,
                   code |-> "ERR_BAD_REQUEST", message |-> "Request failed"]
ErrorNetwork == [detail |-> "", status |-> 0,
                 code |-> "ERR_NETWORK", message |-> "Network Error"]
CredErrors   == {ErrorDetail, ErrorStatus(404)}
ResendErrors == {ErrorDetail, ErrorNetwork}
VerifyErrors == {ErrorStatus(401), ErrorNetwork}

(***************************************************************************)
(* localStorage                                                            *)
(***************************************************************************)
getItem(ls, key) == ls[key]
setItem(ls, key, value) == [ls EXCEPT ![key] = value]

(***************************************************************************)
(* PrivateRoute                                                            *)
(***************************************************************************)
PrivateRouteElementAlways(token) == "outlet"

\* return token ? <Outlet /> : null
PrivateRouteElement(token) == IF Truthy(token) THEN "outlet" ELSE "null"

\* useEffect: if (!token) navigate('/signin', { replace: true })
PrivateRouteRedirects(token) == ~Truthy(token)

(***************************************************************************)
(* AuthForm                                                                *)
(***************************************************************************)
\* the type prop of the AuthForm rendered at a route
formType(r) == IF r = "/signup" THEN "signup" ELSE "signin"

AuthMounted == route \in {"/signin", "/signup"}

InitForm     == [FullName |-> "", Email |-> ""]
InitAuthForm == [isLoading |-> FALSE, errorMessage |-> "", accountData |-> <<>>]
InitOtpModal == [isOpen |-> TRUE, password |-> "", isLoading |-> FALSE,
                 isResending |-> FALSE, errorMessage |-> "",
                 successMessage |-> ""]

\* zod schema: FullName 2..50 characters on signup, optional otherwise
AuthFormSchema(type, values) ==
  /\ type = "signup" => (Len(values.FullName) >= 2 /\ Len(values.FullName) <= 50)
  /\ IsEmail(values.Email)

onSubmitRequestSwapped(type, values) ==
  IF type = "signup" /\ values.FullName # ""
    THEN login([email |-> values.Email])
    ELSE createUser([name |-> values.FullName, email |-> values.Email])

\* the request onSubmit awaits
onSubmitRequest(type, values) ==
  IF type = "signup" /\ values.FullName # ""
    THEN createUser([name |-> values.FullName, email |-> values.Email])
    ELSE login([email |-> values.Email])

onSubmitThenCurrentForm(af, values, user) ==
  [af EXCEPT !.accountData = <<[accountId |-> user.account_id,
                                email |-> form.Email,
                                fullName |-> form.FullName]>>,
             !.isLoading = FALSE]

\* onSubmit after the awaited call returned
onSubmitThen(af, values, user) ==
  [af EXCEPT !.accountData = <<[accountId |-> user.account_id,
                                email |-> values.Email,
                                fullName |-> values.FullName]>>,
             !.isLoading = FALSE]

onSubmitErrorMessage(type, error) ==
  IF error.detail # "" THEN error.detail
  ELSE IF error.status = 404 /\ type = "signin"
    THEN "Account not found. Please sign up first."
  ELSE IF error.status = 403
    THEN "Email not verified. Please complete signup first."
  ELSE IF error.status = 400
    THEN "User already exists. Please try logging in."
  ELSE "Failed to " \o (IF type = "signup" THEN "create account" ELSE "sign in")
         \o ". Please try again." \o error.message

onSubmitCatchOpensModal(af, type, values, error) ==
  [af EXCEPT !.errorMessage = onSubmitErrorMessage(type, error),
             !.accountData = <<[accountId |-> "", email |-> values.Email,
                                fullName |-> values.FullName]>>,
             !.isLoading = FALSE]

\* onSubmit after the awaited call threw
onSubmitCatch(af, type, values, error) ==
  [af EXCEPT !.errorMessage = onSubmitErrorMessage(type, error),
             !.isLoading = FALSE]

handleOTPCloseKeepsAccount(af) == af

\* AuthForm.handleOTPClose, the onClose prop of OTPModal
handleOTPClose(af) == [af EXCEPT !.accountData = <<>>]

(***************************************************************************)
(* OTPModal                                                                *)
(***************************************************************************)
ModalMounted == authForm.accountData # <<>>
ModalVisible == ModalMounted /\ otpModal.isOpen

\* AlertDialog is modal: the form behind it takes no input while it is open
FormInteractive == AuthMounted /\ ~ModalVisible

handleSubmitInvalidIgnoresEmail(Email, password) ==
  password = "" \/ Len(password) # 6

\* if (!Email || !password || password.length !== 6)
handleSubmitInvalid(Email, password) ==
  ~Truthy(Email) \/ password = "" \/ Len(password) # 6

handleSubmitRequestSwapped(formtype, Email, password) ==
  IF formtype = "signup"
    THEN verifyLogin([email |-> Email, otp |-> password])
    ELSE verifySignup([email |-> Email, otp |-> password])

\* the request handleSubmit awaits
handleSubmitRequest(formtype, Email, password) ==
  IF formtype = "signup"
    THEN verifySignup([email |-> Email, otp |-> password])
    ELSE verifyLogin([email |-> Email, otp |-> password])

handleSubmitThenCallbackFirst(ls, verify) ==
  [onSuccess    |-> [token |-> verify.access_token, store |-> ls],
   localStorage |-> setItem(setItem(ls, "access_token", verify.access_token),
                            "token_type", verify.token_type)]

\* handleSubmit after verify returned: store the token, then call onSuccess
handleSubmitThen(ls, verify) ==
  LET ls1 == setItem(ls, "access_token", verify.access_token)
      ls2 == setItem(ls1, "token_type", verify.token_type)
  IN  [onSuccess    |-> [token |-> verify.access_token, store |-> ls2],
       localStorage |-> ls2]

handleSubmitErrorMessage(error) ==
  IF error.detail # "" THEN error.detail
  ELSE IF error.status = 401 THEN "Invalid OTP. Please try again."
  ELSE IF error.status = 404 THEN "User not found. Please sign up first."
  ELSE IF error.status = 400 THEN "Email already verified. Please log in."
  ELSE IF error.status = 403
    THEN "Email not verified. Please complete signup first."
  ELSE IF error.code = "ERR_NETWORK"
    THEN "Network error. Please check your connection."
  ELSE error.message

handleSubmitCatchCloses(om, error) ==
  [om EXCEPT !.errorMessage = handleSubmitErrorMessage(error),
             !.isOpen = FALSE,
             !.isLoading = FALSE]

\* handleSubmit after verify threw
handleSubmitCatch(om, error) ==
  [om EXCEPT !.errorMessage = handleSubmitErrorMessage(error),
             !.isLoading = FALSE]

\* handleResendOtp after resendOTP returned
handleResendOtpThen(om) ==
  [om EXCEPT !.successMessage = "OTP resent successfully!",
             !.password = "",
             !.isResending = FALSE]

\* error.response?.data?.detail || error.message || "Failed to resend ..."
handleResendOtpErrorMessage(error) ==
  IF error.detail # "" THEN error.detail
  ELSE IF error.message # "" THEN error.message
  ELSE "Failed to resend OTP. Please try again."

handleResendOtpCatchClearsOtp(om, error) ==
  [om EXCEPT !.errorMessage = handleResendOtpErrorMessage(error),
             !.password = "",
             !.isResending = FALSE]

\* handleResendOtp after resendOTP threw
handleResendOtpCatch(om, error) ==
  [om EXCEPT !.errorMessage = handleResendOtpErrorMessage(error),
             !.isResending = FALSE]

\* continuations of a component that is gone: their setState calls do nothing
Orphaned(S) == {[q EXCEPT !.formLive = FALSE, !.modalLive = FALSE] : q \in S}
ModalGone(S) == {[q EXCEPT !.modalLive = FALSE] : q \in S}

(***************************************************************************)
(* Dashboard: values.  Time is counted in hours; text that is searched or  *)
(* parsed is a sequence of characters; a nullable value is <<>> or <<v>>.  *)
(***************************************************************************)
MaxRepos == 2           \* repositories loaded into the dashboard
MaxAgeDays == 65        \* oldest date handed to formatDate, in days
MaxAheadDays == 2       \* latest date handed to formatDate, in days after now
MaxFetches == 3         \* requests sent to the generative-AI endpoint

Day == 24
Now == 10000

None == <<>>
Some(x) == <<x>>

Clocks == {[now |-> Now, prevMonthDays |-> d] : d \in {28, 31}}

Digits == <<"0", "1", "2", "3", "4", "5", "6", "7", "8", "9">>
IsDigit(c) == \E i \in 1..10 : Digits[i] = c
DigitValue(c) == (CHOOSE i \in 1..10 : Digits[i] = c) - 1

UpperCase == <<"E", "G", "P", "R", "T", "U", "Y">>
LowerCase == <<"e", "g", "p", "r", "t", "u", "y">>

\* String.prototype.toLowerCase
toLowerCase(str) ==
  [i \in 1..Len(str) |->
     IF \E k \in 1..Len(UpperCase) : UpperCase[k] = str[i]
       THEN LowerCase[CHOOSE k \in 1..Len(UpperCase) : UpperCase[k] = str[i]]
       ELSE str[i]]

\* String.prototype.includes
includes(str, sub) ==
  \E i \in 0..(Len(str) - Len(sub)) : SubSeq(str, i + 1, i + Len(sub)) = sub

RECURSIVE digitsValue(_)
digitsValue(ds) ==
  IF ds = <<>> THEN 0
  ELSE 10 * digitsValue(SubSeq(ds, 1, Len(ds) - 1)) + DigitValue(ds[Len(ds)])

\* length of the longest prefix of str made of digits
RECURSIVE digitPrefix(_)
digitPrefix(str) ==
  IF str # <<>> /\ IsDigit(Head(str)) THEN 1 + digitPrefix(Tail(str)) ELSE 0

\* parseInt(str, 10): optional sign, then the leading digits; NaN without any
parseInt(str) ==
  LET signed == str # <<>> /\ Head(str) \in {"-", "+"}
      body   == IF signed THEN Tail(str) ELSE str
      n      == digitPrefix(body)
      v      == digitsValue(SubSeq(body, 1, n))
  IN  IF n = 0 THEN [nan |-> TRUE, value |-> 0]
      ELSE [nan |-> FALSE,
            value |-> IF signed /\ Head(str) = "-" THEN 0 - v ELSE v]

SampleRepositories ==
  { [githubId |-> "1", name |-> <<"R", "e">>,
     fullName |-> <<"f", "b", "/", "R", "e">>,
     description |-> Some(<<"U", "i">>), primaryLanguage |-> "JavaScript",
     topics |-> << <<"j", "s">> >>,
     health |-> [stars |-> 1500, commitsLastMonth |-> 10,
                 lastCommitDate |-> Some(Now - 5)],
     goodFirstIssues |-> 3],
    [githubId |-> "2", name |-> <<"T", "f">>,
     fullName |-> <<"g", "/", "T", "f">>,
     description |-> None, primaryLanguage |-> "Python",
     topics |-> << <<"m", "l">>, <<"p", "y">> >>,
     health |-> [stars |-> 5, commitsLastMonth |-> 0,
                 lastCommitDate |-> None],
     goodFirstIssues |-> 0],
    [githubId |-> "3", name |-> <<"G", "o">>,
     fullName |-> <<"c", "o", "r", "e", "/", "g", "o">>,
     description |-> Some(<<"x">>), primaryLanguage |-> NULL,
     topics |-> << >>,
     health |-> [stars |-> 1500, commitsLastMonth |-> 20,
                 lastCommitDate |-> Some(Now - 700)],
     goodFirstIssues |-> 1],
    [githubId |-> "4", name |-> <<"A", "x">>,
     fullName |-> <<"a", "/", "a", "x">>,
     description |-> Some(<<"P", "y">>), primaryLanguage |-> "Python",
     topics |-> << <<"u", "i">> >>,
     health |-> [stars |-> 30000, commitsLastMonth |-> 5,
                 lastCommitDate |-> Some(Now - 20)],
     goodFirstIssues |-> 0] }

\* what the backend may deliver: lists of distinct repositories
RepositoryLists ==
  UNION {{l \in [1..n -> SampleRepositories] :
            \A i, j \in 1..n : i # j => l[i] # l[j]} : n \in 0..MaxRepos}

SearchInputs    == {<<>>, <<"R", "E">>, <<"p", "y">>}
languageOptions == {"Python"}
MinStarsInputs  == {<<>>, <<"2", "0", "0", "0">>, <<"1", "e", "3">>}
QuickFilters    == {"Trending", "Good First Issues", "Active Today", "Hidden Gems"}

initialFilters ==
  [language |-> "", minStars |-> <<>>, recentActivity |-> "any",
   sortBy |-> "stars"]

\* the values each control of the advanced filters can deliver
FilterValues(name) ==
  CASE name = "language"       -> {""} \cup languageOptions
    [] name = "minStars"       -> MinStarsInputs
    [] name = "recentActivity" -> {"any", "week", "month"}
    [] name = "sortBy"         -> {"stars", "updated"}

(***************************************************************************)
(* Dashboard: helper functions                                             *)
(***************************************************************************)
\* formatDate, with `now` the value of new Date()
formatDate(dateString, now) ==
  IF dateString = None THEN "N/A"
  ELSE LET diffTime == now - dateString[1]
           diffDays == diffTime \div Day
       IN  IF diffDays = 0 THEN "Today"
           ELSE IF diffDays = 1 THEN "Yesterday"
           ELSE IF diffDays < 7 THEN ToString(diffDays) \o " days ago"
           ELSE IF diffDays < 30 THEN ToString(diffDays \div 7) \o " weeks ago"
           ELSE ToString(diffDays \div 30) \o " months ago"

\* Array.prototype.sort with (a, b) => key(b) - key(a): stable, descending
RECURSIVE sortDescending(_, _)
sortDescending(arr, keys) ==
  IF arr = <<>> THEN <<>>
  ELSE LET I == 1..Len(arr)
           m == CHOOSE k \in {keys[i] : i \in I} : \A i \in I : keys[i] <= k
           f == CHOOSE i \in I : keys[i] = m /\ \A j \in 1..(i - 1) : keys[j] # m
           rest(q) == SubSeq(q, 1, f - 1) \o SubSeq(q, f + 1, Len(q))
       IN  <<arr[f]>> \o sortDescending(rest(arr), rest(keys))

byStars(arr)   == sortDescending(arr, [i \in 1..Len(arr) |-> arr[i].health.stars])
byCommits(arr) == sortDescending(arr,
                    [i \in 1..Len(arr) |-> arr[i].health.commitsLastMonth])
byGoodFirstIssues(arr) ==
  sortDescending(arr, [i \in 1..Len(arr) |-> arr[i].goodFirstIssues])
byUpdated(arr) ==
  sortDescending(arr,
    [i \in 1..Len(arr) |->
       IF arr[i].health.lastCommitDate # None
         THEN arr[i].health.lastCommitDate[1] ELSE 0])

\* p.health.lastCommitDate && new Date(p.health.lastCommitDate) > t
committedAfter(p, t) ==
  p.health.lastCommitDate # None /\ p.health.lastCommitDate[1] > t

\* the predicate of the search box
matchesSearch(p, lowercasedSearch) ==
  \/ includes(toLowerCase(p.name), lowercasedSearch)
  \/ /\ p.description # None
     /\ p.description[1] # <<>>
     /\ includes(toLowerCase(p.description[1]), lowercasedSearch)
  \/ includes(toLowerCase(p.fullName), lowercasedSearch)
  \/ \E i \in 1..Len(p.topics) :
       includes(toLowerCase(p.topics[i]), lowercasedSearch)

\* steps 1 and 2 of the pipeline: search term, then the advanced filters
advancedFilters(repos, term, f, clk) ==
  LET lowercasedSearch == toLowerCase(term)
      bySearch(p)   == lowercasedSearch # <<>> => matchesSearch(p, lowercasedSearch)
      byLanguage(p) == f.language # "" => p.primaryLanguage = f.language
      byStarsMin(p) == f.minStars # <<>> =>
                         (~parseInt(f.minStars).nan
                            /\ p.health.stars >= parseInt(f.minStars).value)
      days          == IF f.recentActivity = "week" THEN 7 ELSE 30
      cutoffDate    == clk.now - days * Day
      byActivity(p) == f.recentActivity # "any" => committedAfter(p, cutoffDate)
  IN  SelectSeq(SelectSeq(SelectSeq(SelectSeq(repos, bySearch), byLanguage),
                          byStarsMin), byActivity)

\* monthAgo.setMonth(monthAgo.getMonth() - 1)
monthAgo(clk) == clk.now - clk.prevMonthDays * Day

isTrending(p, clk)    == committedAfter(p, monthAgo(clk))
hasGoodFirstIssues(p) == p.goodFirstIssues > 0
isActiveToday(p, clk) ==
  p.health.lastCommitDate # None /\ formatDate(p.health.lastCommitDate, clk.now) = "Today"
isHiddenGem(p)        == p.health.stars > 1000 /\ p.health.stars < 20000

defaultSortStarsOnly(results, f) == byStars(results)

\* the default sorting of both dashboards
defaultSort(results, f) ==
  IF f.sortBy = "stars" THEN byStars(results)
  ELSE IF f.sortBy = "updated" THEN byUpdated(results)
  ELSE results

filteredRepositoriesMemoAlwaysSorts(repos, term, f, quick, clk) ==
  LET results == advancedFilters(repos, term, f, clk)
      t(p) == isTrending(p, clk)
      a(p) == isActiveToday(p, clk)
  IN  defaultSort(
        IF quick = "Trending" THEN SelectSeq(results, t)
        ELSE IF quick = "Good First Issues" THEN SelectSeq(results, hasGoodFirstIssues)
        ELSE IF quick = "Active Today" THEN SelectSeq(results, a)
        ELSE IF quick = "Hidden Gems" THEN SelectSeq(results, isHiddenGem)
        ELSE results, f)

\* the useMemo pipeline of the dashboard
filteredRepositoriesMemo(repos, term, f, quick, clk) ==
  LET results == advancedFilters(repos, term, f, clk)
      t(p) == isTrending(p, clk)
      a(p) == isActiveToday(p, clk)
  IN  IF quick # ""
        THEN IF quick = "Trending" THEN byCommits(SelectSeq(results, t))
             ELSE IF quick = "Good First Issues"
               THEN byGoodFirstIssues(SelectSeq(results, hasGoodFirstIssues))
             ELSE IF quick = "Active Today" THEN SelectSeq(results, a)
             ELSE IF quick = "Hidden Gems"
               THEN byStars(SelectSeq(results, isHiddenGem))
             ELSE results
        ELSE defaultSort(results, f)

filteringEffectAlwaysSorts(repos, term, f, quick, clk) ==
  filteredRepositoriesMemoAlwaysSorts(repos, term, f, quick, clk)

\* the useEffect pipeline of the first dashboard
filteringEffect(repos, term, f, quick, clk) ==
  LET results == advancedFilters(repos, term, f, clk)
      t(p) == isTrending(p, clk)
      a(p) == isActiveToday(p, clk)
  IN  IF quick # ""
        THEN IF quick = "Trending" THEN byStars(SelectSeq(results, t))
             ELSE IF quick = "Good First Issues"
               THEN SelectSeq(results, hasGoodFirstIssues)
             ELSE IF quick = "Active Today" THEN SelectSeq(results, a)
             ELSE IF quick = "Hidden Gems" THEN SelectSeq(results, isHiddenGem)
             ELSE results
        ELSE defaultSort(results, f)

handleFilterChangeKeepsQuickFilter(prev, quick, name, value) ==
  [filters |-> [prev EXCEPT ![name] = value], activeQuickFilter |-> quick]

\* setFilters(prev => ({...prev, [name]: value})); setActiveQuickFilter('')
handleFilterChangeUpdates(prev, quick, name, value) ==
  [filters |-> [prev EXCEPT ![name] = value], activeQuickFilter |-> ""]

setActiveQuickFilterUpdaterNoToggle(prev, filterName) == filterName

\* prev => prev === filterName ? '' : filterName
setActiveQuickFilterUpdater(prev, filterName) ==
  IF prev = filterName THEN "" ELSE filterName

(***************************************************************************)
(* AIInsightModal                                                          *)
(***************************************************************************)
\* how a request to the endpoint can end: fetch rejects, a non-OK status, a
\* body without candidates[0].content.parts[0].text, a text JSON.parse
\* rejects, a text that parses
Responses == {"rejected", "notOk", "noText", "unparsable", "parsed"}

InitInsightModal == [insights |-> None, isLoading |-> FALSE, error |-> None]

\* fetchInsights up to the awaited fetch
fetchInsightsStart(m) ==
  [m EXCEPT !.isLoading = TRUE, !.error = None, !.insights = None]

\* err instanceof Error ? err.message : "An unknown error occurred."
fetchInsightsErrorMessage(response) ==
  CASE response = "rejected"   -> "Failed to fetch"
    [] response = "notOk"      -> "API error: Bad Request"
    [] response = "noText"     -> "Unexpected API response structure."
    [] response = "unparsable" -> "Unexpected end of JSON input"

\* fetchInsights after the awaited fetch: try / catch / finally
fetchInsightsSettled(m, repository, response) ==
  IF response = "parsed"
    THEN [m EXCEPT !.insights = Some([summary |-> repository.githubId]),
                   !.isLoading = FALSE]
    ELSE [m EXCEPT !.error = Some(fetchInsightsErrorMessage(response)),
                   !.isLoading = FALSE]

(***************************************************************************)
(* Initial state: the application opened on one of its routes in a browser *)
(* that holds no token yet.                                                *)
(***************************************************************************)
AuthInit ==
  /\ route \in Routes
  /\ prView = IF route = "/dashboard" THEN "pending" ELSE "none"
  /\ lastNav = [by |-> "user", after |-> "", replace |-> FALSE, store |-> [access_token |-> NULL, token_type |-> NULL]]
  /\ form = InitForm
  /\ authForm = InitAuthForm
  /\ credReq = <<>>
  /\ otpModal = InitOtpModal
  /\ modalOpener = 0
  /\ verifyReqs = {}
  /\ timers = {}
  /\ localStorage = [access_token |-> NULL, token_type |-> NULL]
  /\ requests = <<>>
  /\ resendReq = <<>>
  /\ onSuccess = "navigate"

\* the dashboard as it is mounted, before its data arrives
DashInit ==
  /\ clock \in Clocks
  /\ repositories = <<>>
  /\ loading = TRUE
  /\ searchTerm = <<>>
  /\ filters = initialFilters
  /\ activeQuickFilter = ""
  /\ filteredRepositories = <<>>
  /\ filteredRepositoriesState = <<>>

\* formatDate about to be called
FormatInit ==
  /\ fdInput \in {None} \cup
       {Some(t) : t \in (Now - MaxAgeDays * Day)..(Now + MaxAheadDays * Day)}
  /\ fdResult = None

\* the insight modal of the dashboard as it is mounted
AiInit ==
  /\ selectedRepo = None
  /\ isModalOpen = FALSE
  /\ insightModal = InitInsightModal
  /\ fetches = {}
  /\ fetchCount = 0

\* the parts of the application a specification leaves aside
AuthIdle ==
  /\ AuthInit
  /\ route = "/dashboard"

DashIdle ==
  /\ DashInit
  /\ clock.prevMonthDays = 31

FormatIdle ==
  /\ fdInput = None
  /\ fdResult = None

Init == AuthInit /\ DashIdle /\ FormatIdle /\ AiInit

(***************************************************************************)
(* Router                                                                  *)
(***************************************************************************)
\* the user follows a link or edits the location; the component tree of the
\* old route is unmounted and that of the new route mounted
Navigate(path) ==
  /\ UNCHANGED <<dashVars, formatVars, aiVars, onSuccess>>
  /\ resendReq' = <<>>
  /\ path # route
  /\ route' = path
  /\ prView' = IF path = "/dashboard" THEN "pending" ELSE "none"
  /\ lastNav' = [by |-> "user", after |-> "", replace |-> FALSE,
                 store |-> localStorage]
  /\ form' = InitForm
  /\ authForm' = InitAuthForm
  /\ credReq' = <<>>
  /\ otpModal' = InitOtpModal
  /\ modalOpener' = 0
  /\ verifyReqs' = Orphaned(verifyReqs)
  /\ timers' = Orphaned(timers)
  /\ UNCHANGED <<localStorage, requests>>

\* PrivateRoute renders at /dashboard and its effect runs
PrivateRoute ==
  /\ UNCHANGED <<dashVars, formatVars, aiVars>>
  /\ UNCHANGED <<resendReq, onSuccess>>
  /\ route = "/dashboard"
  /\ prView = "pending"
  /\ LET token == getItem(localStorage, "access_token") IN
       /\ prView' = PrivateRouteElement(token)
       /\ IF PrivateRouteRedirects(token)
            THEN /\ route' = "/signin"
                 /\ lastNav' = [by |-> "PrivateRoute", after |-> lastNav.by,
                                replace |-> TRUE, store |-> localStorage]
            ELSE UNCHANGED <<route, lastNav>>
  /\ UNCHANGED <<form, authForm, credReq, otpModal, modalOpener, verifyReqs,
                 timers, localStorage, requests>>

(***************************************************************************)
(* AuthForm handlers                                                       *)
(***************************************************************************)
setFullName(v) ==
  /\ UNCHANGED <<dashVars, formatVars, aiVars>>
  /\ UNCHANGED <<resendReq, onSuccess>>
  /\ FormInteractive
  /\ formType(route) = "signup"
  /\ v # form.FullName
  /\ form' = [form EXCEPT !.FullName = v]
  /\ UNCHANGED <<route, prView, lastNav, authForm, credReq, otpModal,
                 modalOpener, verifyReqs, timers, localStorage, requests>>

setEmail(v) ==
  /\ UNCHANGED <<dashVars, formatVars, aiVars>>
  /\ UNCHANGED <<resendReq, onSuccess>>
  /\ FormInteractive
  /\ v # form.Email
  /\ form' = [form EXCEPT !.Email = v]
  /\ UNCHANGED <<route, prView, lastNav, authForm, credReq, otpModal,
                 modalOpener, verifyReqs, timers, localStorage, requests>>

\* form.handleSubmit(onSubmit) up to the awaited request
onSubmit ==
  /\ UNCHANGED <<dashVars, formatVars, aiVars>>
  /\ UNCHANGED <<resendReq, onSuccess>>
  /\ FormInteractive
  /\ ~authForm.isLoading
  /\ AuthFormSchema(formType(route), form)
  /\ Len(requests) < MaxRequests
  /\ authForm' = [authForm EXCEPT !.isLoading = TRUE, !.errorMessage = ""]
  /\ requests' = Append(requests, onSubmitRequest(formType(route), form))
  /\ credReq' = <<[idx |-> Len(requests) + 1, values |-> form]>>
  /\ UNCHANGED <<route, prView, lastNav, form, otpModal, modalOpener,
                 verifyReqs, timers, localStorage>>

\* the awaited createUser / login resolves
onSubmitResolve(account_id) ==
  /\ UNCHANGED <<dashVars, formatVars, aiVars>>
  /\ UNCHANGED <<resendReq, onSuccess>>
  /\ credReq # <<>>
  /\ LET q == credReq[1] IN
       /\ authForm' = onSubmitThen(authForm, q.values, [account_id |-> account_id])
       /\ requests' = [requests EXCEPT ![q.idx].status = "ok"]
       /\ modalOpener' = IF ModalMounted THEN modalOpener ELSE q.idx
  /\ credReq' = <<>>
  /\ UNCHANGED <<route, prView, lastNav, form, otpModal, verifyReqs, timers,
                 localStorage>>

\* the awaited createUser / login rejects
onSubmitReject(error) ==
  /\ UNCHANGED <<dashVars, formatVars, aiVars>>
  /\ UNCHANGED <<resendReq, onSuccess>>
  /\ credReq # <<>>
  /\ LET q == credReq[1]
         af == onSubmitCatch(authForm, formType(route), q.values, error) IN
       /\ authForm' = af
       /\ requests' = [requests EXCEPT ![q.idx].status = "failed"]
       /\ modalOpener' = IF ModalMounted \/ af.accountData = <<>>
                           THEN modalOpener ELSE q.idx
  /\ credReq' = <<>>
  /\ UNCHANGED <<route, prView, lastNav, form, otpModal, verifyReqs, timers,
                 localStorage>>

(***************************************************************************)
(* OTPModal handlers                                                       *)
(***************************************************************************)
setPassword(p) ==
  /\ UNCHANGED <<dashVars, formatVars, aiVars>>
  /\ UNCHANGED <<resendReq, onSuccess>>
  /\ ModalVisible
  /\ p # otpModal.password
  /\ otpModal' = [otpModal EXCEPT !.password = p]
  /\ UNCHANGED <<route, prView, lastNav, form, authForm, credReq, modalOpener,
                 verifyReqs, timers, localStorage, requests>>

\* click on Submit (enabled only when not loading and six characters are
\* entered): the guard, then the handler up to the awaited request
handleSubmit ==
  /\ UNCHANGED <<dashVars, formatVars, aiVars>>
  /\ UNCHANGED <<resendReq, onSuccess>>
  /\ ModalVisible
  /\ ~otpModal.isLoading
  /\ Len(otpModal.password) = 6
  /\ LET Email == authForm.accountData[1].email IN
       IF handleSubmitInvalid(Email, otpModal.password)
         THEN /\ otpModal' = [otpModal EXCEPT !.errorMessage =
                                "Please enter a valid 6-digit OTP"]
              /\ UNCHANGED <<requests, verifyReqs>>
         ELSE /\ Len(requests) < MaxRequests
              /\ requests' = Append(requests,
                   handleSubmitRequest(formType(route), Email, otpModal.password))
              /\ otpModal' = [otpModal EXCEPT !.isLoading = TRUE,
                                              !.errorMessage = "",
                                              !.successMessage = ""]
              /\ verifyReqs' = verifyReqs \cup
                   {[idx |-> Len(requests) + 1, formLive |-> TRUE,
                     modalLive |-> TRUE]}
  /\ UNCHANGED <<route, prView, lastNav, form, authForm, credReq, modalOpener,
                 timers, localStorage>>

\* the awaited verify call resolves: token stored, onSuccess called (the one
\* AuthForm passes navigates to /dashboard, which unmounts AuthForm and the
\* modal), close timer armed
handleSubmitResolve(q, access_token, token_type) ==
  /\ UNCHANGED <<dashVars, formatVars, aiVars, onSuccess>>
  /\ q \in verifyReqs
  /\ requests' = [requests EXCEPT ![q.idx].status = "ok"]
  /\ LET then == handleSubmitThen(localStorage,
                   [access_token |-> access_token, token_type |-> token_type])
     IN /\ localStorage' = then.localStorage
        /\ IF onSuccess = "navigate"
             THEN /\ lastNav' = [by |-> "onSuccess", after |-> "",
                                 replace |-> FALSE,
                                 store |-> then.onSuccess.store]
                  /\ route' = "/dashboard"
                  /\ prView' = "pending"
                  /\ form' = InitForm
                  /\ authForm' = InitAuthForm
                  /\ credReq' = <<>>
                  /\ otpModal' = InitOtpModal
                  /\ modalOpener' = 0
                  /\ resendReq' = <<>>
                  /\ verifyReqs' = Orphaned(verifyReqs \ {q})
                  /\ timers' = Orphaned(timers \cup {[formLive |-> q.formLive,
                                                      modalLive |-> q.modalLive]})
             ELSE /\ otpModal' =
                       IF q.modalLive
                         THEN [otpModal EXCEPT
                                 !.successMessage =
                                   "Verification successful! Redirecting...",
                                 !.isLoading = FALSE]
                         ELSE otpModal
                  /\ verifyReqs' = verifyReqs \ {q}
                  /\ timers' = timers \cup {[formLive |-> q.formLive,
                                             modalLive |-> q.modalLive]}
                  /\ UNCHANGED <<route, prView, lastNav, form, authForm,
                                 credReq, modalOpener, resendReq>>

\* the awaited verify call rejects
handleSubmitReject(q, error) ==
  /\ UNCHANGED <<dashVars, formatVars, aiVars>>
  /\ UNCHANGED <<resendReq, onSuccess>>
  /\ q \in verifyReqs
  /\ otpModal' = IF q.modalLive THEN handleSubmitCatch(otpModal, error)
                                ELSE otpModal
  /\ verifyReqs' = verifyReqs \ {q}
  /\ requests' = [requests EXCEPT ![q.idx].status = "failed"]
  /\ UNCHANGED <<route, prView, lastNav, form, authForm, credReq, modalOpener,
                 timers, localStorage>>

\* click on Resend OTP (disabled while a resend is awaited), up to the
\* awaited request
handleResendOtp ==
  /\ UNCHANGED <<dashVars, formatVars, aiVars, onSuccess>>
  /\ ModalVisible
  /\ ~otpModal.isResending
  /\ LET Email == authForm.accountData[1].email IN
       IF ~Truthy(Email)
         THEN UNCHANGED <<otpModal, requests, resendReq>>
         ELSE /\ Len(requests) < MaxRequests
              /\ otpModal' = [otpModal EXCEPT !.isResending = TRUE,
                                              !.errorMessage = "",
                                              !.successMessage = ""]
              /\ requests' = Append(requests,
                   resendOTP(Email, IF formType(route) = "signup"
                                      THEN "signup" ELSE "login"))
              /\ resendReq' = <<[idx |-> Len(requests) + 1]>>
  /\ UNCHANGED <<route, prView, lastNav, form, authForm, credReq, modalOpener,
                 verifyReqs, timers, localStorage>>

\* the awaited resendOTP resolves
handleResendOtpResolve ==
  /\ UNCHANGED <<dashVars, formatVars, aiVars, onSuccess>>
  /\ resendReq # <<>>
  /\ otpModal' = handleResendOtpThen(otpModal)
  /\ requests' = [requests EXCEPT ![resendReq[1].idx].status = "ok"]
  /\ resendReq' = <<>>
  /\ UNCHANGED <<route, prView, lastNav, form, authForm, credReq, modalOpener,
                 verifyReqs, timers, localStorage>>

\* the awaited resendOTP rejects
handleResendOtpReject(error) ==
  /\ UNCHANGED <<dashVars, formatVars, aiVars, onSuccess>>
  /\ resendReq # <<>>
  /\ otpModal' = handleResendOtpCatch(otpModal, error)
  /\ requests' = [requests EXCEPT ![resendReq[1].idx].status = "failed"]
  /\ resendReq' = <<>>
  /\ UNCHANGED <<route, prView, lastNav, form, authForm, credReq, modalOpener,
                 verifyReqs, timers, localStorage>>

\* click on the close icon: setIsOpen(false); onClose() resets accountData
handleClose ==
  /\ UNCHANGED <<dashVars, formatVars, aiVars, onSuccess>>
  /\ resendReq' = <<>>
  /\ ModalVisible
  /\ authForm' = handleOTPClose(authForm)
  /\ otpModal' = InitOtpModal
  /\ modalOpener' = 0
  /\ verifyReqs' = ModalGone(verifyReqs)
  /\ timers' = ModalGone(timers)
  /\ UNCHANGED <<route, prView, lastNav, form, credReq, localStorage, requests>>

\* AlertDialog onOpenChange={setIsOpen}: Escape dismisses the dialog
onOpenChange ==
  /\ UNCHANGED <<dashVars, formatVars, aiVars>>
  /\ UNCHANGED <<resendReq, onSuccess>>
  /\ ModalVisible
  /\ otpModal' = [otpModal EXCEPT !.isOpen = FALSE]
  /\ UNCHANGED <<route, prView, lastNav, form, authForm, credReq, modalOpener,
                 verifyReqs, timers, localStorage, requests>>

\* the 1500 ms timer of a successful verification fires
closeTimer(t) ==
  /\ UNCHANGED <<dashVars, formatVars, aiVars, onSuccess>>
  /\ resendReq' = IF t.formLive THEN <<>> ELSE resendReq
  /\ t \in timers
  /\ timers' = IF t.formLive THEN ModalGone(timers \ {t}) ELSE timers \ {t}
  /\ authForm' = IF t.formLive THEN handleOTPClose(authForm) ELSE authForm
  /\ otpModal' = IF t.formLive THEN InitOtpModal
                 ELSE IF t.modalLive THEN [otpModal EXCEPT !.isOpen = FALSE]
                 ELSE otpModal
  /\ modalOpener' = IF t.formLive THEN 0 ELSE modalOpener
  /\ verifyReqs' = IF t.formLive THEN ModalGone(verifyReqs) ELSE verifyReqs
  /\ UNCHANGED <<route, prView, lastNav, form, credReq, localStorage, requests>>

Next ==
  \/ \E path \in Routes : Navigate(path)
  \/ PrivateRoute
  \/ \E v \in FullNameInputs : setFullName(v)
  \/ \E v \in EmailInputs : setEmail(v)
  \/ onSubmit
  \/ \E id \in AccountIds : onSubmitResolve(id)
  \/ \E e \in CredErrors : onSubmitReject(e)
  \/ \E p \in OtpInputs : setPassword(p)
  \/ handleSubmit
  \/ \E q \in verifyReqs, tok \in AccessTokens, tt \in TokenTypes :
       handleSubmitResolve(q, tok, tt)
  \/ \E q \in verifyReqs, e \in VerifyErrors : handleSubmitReject(q, e)
  \/ handleResendOtp
  \/ handleResendOtpResolve
  \/ \E e \in ResendErrors : handleResendOtpReject(e)
  \/ handleClose
  \/ onOpenChange
  \/ \E t \in timers : closeTimer(t)

Spec == Init /\ [][Next]_vars

(***************************************************************************)
(* OTPModal on its own: mounted by a parent that passes any props the      *)
(* interface OTPModalProps admits (Email and onSuccess are optional).      *)
(***************************************************************************)
EmailProps     == {"", "a@x.io"}
OnSuccessProps == {"navigate", "none"}

ModalStart ==
  /\ route \in {"/signin", "/signup"}
  /\ prView = "none"
  /\ lastNav = [by |-> "user", after |-> "", replace |-> FALSE,
                store |-> [access_token |-> NULL, token_type |-> NULL]]
  /\ form = InitForm
  /\ \E Email \in EmailProps, AccountId \in AccountIds :
       authForm = [InitAuthForm EXCEPT !.accountData =
                     <<[accountId |-> AccountId, email |-> Email,
                        fullName |-> ""]>>]
  /\ credReq = <<>>
  /\ otpModal = InitOtpModal
  /\ modalOpener = 0
  /\ verifyReqs = {}
  /\ timers = {}
  /\ localStorage = [access_token |-> NULL, token_type |-> NULL]
  /\ requests = <<>>
  /\ resendReq = <<>>
  /\ onSuccess \in OnSuccessProps
  /\ DashIdle
  /\ FormatIdle
  /\ AiInit

ModalNext ==
  \/ \E p \in OtpInputs : setPassword(p)
  \/ handleSubmit
  \/ \E q \in verifyReqs, tok \in AccessTokens, tt \in TokenTypes :
       handleSubmitResolve(q, tok, tt)
  \/ \E q \in verifyReqs, e \in VerifyErrors : handleSubmitReject(q, e)
  \/ handleResendOtp
  \/ handleResendOtpResolve
  \/ \E e \in ResendErrors : handleResendOtpReject(e)
  \/ handleClose
  \/ onOpenChange
  \/ \E t \in timers : closeTimer(t)

ModalSpec == ModalStart /\ [][ModalNext]_vars

\* a callback handed to setTimeout is run once its delay has passed
ModalLiveSpec ==
  ModalSpec /\ WF_vars(\E t \in timers : closeTimer(t))

(***************************************************************************)
(* Dashboard handlers.  Every state change is followed by the render that  *)
(* recomputes the memoised list and by the filtering effect.               *)
(***************************************************************************)
Rendered ==
  /\ filteredRepositories' =
       filteredRepositoriesMemo(repositories', searchTerm', filters',
                                activeQuickFilter', clock')
  /\ filteredRepositoriesState' =
       filteringEffect(repositories', searchTerm', filters',
                       activeQuickFilter', clock')

\* the setTimeout callback of the data fetching effect
loadRepositories(sampleRepositories) ==
  /\ loading
  /\ repositories' = sampleRepositories
  /\ loading' = FALSE
  /\ UNCHANGED <<clock, searchTerm, filters, activeQuickFilter>>
  /\ Rendered
  /\ UNCHANGED <<authVars, formatVars, aiVars>>

\* onChange of the search box
setSearchTerm(value) ==
  /\ value # searchTerm
  /\ searchTerm' = value
  /\ UNCHANGED <<clock, repositories, loading, filters, activeQuickFilter>>
  /\ Rendered
  /\ UNCHANGED <<authVars, formatVars, aiVars>>

\* onChange of one of the advanced filter controls
handleFilterChange(name, value) ==
  /\ value # filters[name]
  /\ LET u == handleFilterChangeUpdates(filters, activeQuickFilter, name, value)
     IN  /\ filters' = u.filters
         /\ activeQuickFilter' = u.activeQuickFilter
  /\ UNCHANGED <<clock, repositories, loading, searchTerm>>
  /\ Rendered
  /\ UNCHANGED <<authVars, formatVars, aiVars>>

\* click on a quick filter button
handleQuickFilterClick(filterName) ==
  /\ activeQuickFilter' = setActiveQuickFilterUpdater(activeQuickFilter, filterName)
  /\ UNCHANGED <<clock, repositories, loading, searchTerm, filters>>
  /\ Rendered
  /\ UNCHANGED <<authVars, formatVars, aiVars>>

handleClearFiltersKeepsSearch ==
  /\ filters' = initialFilters
  /\ activeQuickFilter' = ""
  /\ UNCHANGED <<clock, repositories, loading, searchTerm>>
  /\ Rendered
  /\ UNCHANGED <<authVars, formatVars, aiVars>>

\* click on Clear All
handleClearFilters ==
  /\ searchTerm' = <<>>
  /\ filters' = initialFilters
  /\ activeQuickFilter' = ""
  /\ UNCHANGED <<clock, repositories, loading>>
  /\ Rendered
  /\ UNCHANGED <<authVars, formatVars, aiVars>>

DashNext ==
  \/ \E l \in RepositoryLists : loadRepositories(l)
  \/ \E v \in SearchInputs : setSearchTerm(v)
  \/ \E name \in DOMAIN initialFilters :
       \E value \in FilterValues(name) : handleFilterChange(name, value)
  \/ \E label \in QuickFilters : handleQuickFilterClick(label)
  \/ handleClearFilters

DashStart == AuthIdle /\ DashInit /\ FormatIdle /\ AiInit

DashSpec == DashStart /\ [][DashNext]_vars

(***************************************************************************)
(* formatDate called on a date                                             *)
(***************************************************************************)
formatDateCall ==
  /\ fdResult = None
  /\ fdResult' = Some(formatDate(fdInput, clock.now))
  /\ UNCHANGED <<fdInput, authVars, dashVars, aiVars>>

FormatNext == formatDateCall

FormatStart == AuthIdle /\ DashIdle /\ FormatInit /\ AiInit

FormatSpec == FormatStart /\ [][FormatNext]_vars

(***************************************************************************)
(* The insight modal of the dashboard.  AIInsightModal stays mounted while *)
(* the dashboard is; its effect runs in the render that follows a change   *)
(* of isOpen or repository.                                                *)
(***************************************************************************)
\* click on the insight button of a card (the open modal covers the cards)
handleOpenModal(repo) ==
  /\ ~isModalOpen
  /\ \E i \in 1..Len(filteredRepositories) : filteredRepositories[i] = repo
  /\ fetchCount < MaxFetches
  /\ selectedRepo' = Some(repo)
  /\ isModalOpen' = TRUE
  /\ insightModal' = fetchInsightsStart(insightModal)
  /\ fetches' = fetches \cup {[id |-> fetchCount + 1, repository |-> repo]}
  /\ fetchCount' = fetchCount + 1
  /\ UNCHANGED <<authVars, dashVars, formatVars>>

\* click on the close button or on the backdrop
handleCloseModal ==
  /\ isModalOpen
  /\ isModalOpen' = FALSE
  /\ selectedRepo' = None
  /\ UNCHANGED <<insightModal, fetches, fetchCount>>
  /\ UNCHANGED <<authVars, dashVars, formatVars>>

\* the awaited fetch of one fetchInsights call settles
fetchInsights(q, response) ==
  /\ q \in fetches
  /\ insightModal' = fetchInsightsSettled(insightModal, q.repository, response)
  /\ fetches' = fetches \ {q}
  /\ UNCHANGED <<selectedRepo, isModalOpen, fetchCount>>
  /\ UNCHANGED <<authVars, dashVars, formatVars>>

InsightNext ==
  \/ \E l \in RepositoryLists : loadRepositories(l)
  \/ \E repo \in SampleRepositories : handleOpenModal(repo)
  \/ handleCloseModal
  \/ \E q \in fetches, response \in Responses : fetchInsights(q, response)

InsightStart == AuthIdle /\ DashIdle /\ FormatIdle /\ AiInit

InsightSpec == InsightStart /\ [][InsightNext]_vars

(***************************************************************************)
(* Properties of the authentication flow                                   *)
(***************************************************************************)
IsCredential(r) == r.endpoint \in {"/signup", "/login"}
IsVerify(r)     == r.endpoint \in {"/verify-signup", "/verify-login"}

\* the step in which onSubmit hands its request to axios
OnSubmitStep == credReq = <<>> /\ credReq' # <<>>
\* the step in which OTPModal.handleSubmit hands its request to axios
HandleSubmitStep == verifyReqs' \ verifyReqs # {} /\ Len(requests') = Len(requests) + 1
\* the step in which an awaited verify call rejects
VerifyRejectStep ==
  \E i \in 1..Len(requests) :
    /\ IsVerify(requests[i])
    /\ requests[i].status = "pending"
    /\ requests'[i].status = "failed"

\* C1: the steps of the auth flow happen in the order credential submission,
\* OTP verification, token persistence: localStorage holds an access_token
\* only once a verify request has succeeded, and every verify request was
\* preceded by a createUser / login request for the same email and form
\* type that succeeded.
C1_AuthFlowOrder ==
  /\ Truthy(getItem(localStorage, "access_token")) =>
       \E i \in 1..Len(requests) :
         IsVerify(requests[i]) /\ requests[i].status = "ok"
  /\ \A i \in 1..Len(requests) :
       IsVerify(requests[i]) =>
         \E j \in 1..(i - 1) :
           /\ IsCredential(requests[j])
           /\ requests[j].status = "ok"
           /\ requests[j].email = requests[i].email
           /\ (requests[j].endpoint = "/signup")
                <=> (requests[i].endpoint = "/verify-signup")

C1_Witness ==
  /\ Truthy(getItem(localStorage, "access_token"))
  /\ Len(requests) >= 2
  /\ \E i \in 1..Len(requests) : IsVerify(requests[i]) /\ requests[i].status = "ok"

\* C2: the dashboard is rendered by PrivateRoute only when localStorage holds
\* an access_token; without one PrivateRoute renders nothing and navigates to
\* /signin with replace, so the dashboard is never displayed without a token.
C2_DashboardProtected ==
  /\ prView = "outlet" => Truthy(getItem(localStorage, "access_token"))
  /\ prView = "null" =>
       /\ route = "/signin"
       /\ lastNav.by = "PrivateRoute"
       /\ lastNav.replace
       /\ ~Truthy(getItem(lastNav.store, "access_token"))
  /\ (route = "/dashboard" /\ ~Truthy(getItem(localStorage, "access_token")))
       => prView = "pending"

C2_Witness ==
  /\ prView = "null"
  /\ route = "/signin"
  /\ lastNav.by = "PrivateRoute"
  /\ ~Truthy(getItem(localStorage, "access_token"))

\* C3: when onSuccess runs after a successful verification, access_token and
\* token_type are already in localStorage, so the navigation to /dashboard it
\* performs ends with PrivateRoute rendering the dashboard, never with the
\* redirect to /signin.
C3_TokenStoredBeforeOnSuccess ==
  /\ lastNav.by = "onSuccess" =>
       /\ Truthy(getItem(lastNav.store, "access_token"))
       /\ Truthy(getItem(lastNav.store, "token_type"))
       /\ route = "/dashboard"
       /\ prView \in {"pending", "outlet"}
  /\ lastNav.by = "PrivateRoute" => lastNav.after # "onSuccess"

C3_Witness ==
  /\ lastNav.by = "onSuccess"
  /\ route = "/dashboard"
  /\ prView = "outlet"

\* C4: a rejected verify request leaves localStorage unchanged, does not call
\* onSuccess, does not navigate, arms no close timer and leaves the modal
\* open (isOpen and accountData unchanged).
C4_VerifyFailureFrame ==
  [][VerifyRejectStep =>
       /\ localStorage' = localStorage
       /\ lastNav' = lastNav
       /\ route' = route
       /\ prView' = prView
       /\ timers' = timers
       /\ otpModal'.isOpen = otpModal.isOpen
       /\ authForm'.accountData = authForm.accountData]_vars

C4_Witness ==
  /\ ModalVisible
  /\ otpModal.errorMessage = "Invalid OTP. Please try again."
  /\ ~otpModal.isLoading
  /\ getItem(localStorage, "access_token") = NULL
  /\ \E i \in 1..Len(requests) :
       IsVerify(requests[i]) /\ requests[i].status = "failed"

\* C9: a validated submission of the signup form issues exactly one request,
\* POST /signup with the entered name and email; a validated submission of
\* the signin form issues exactly one request, POST /login with the entered
\* email.
C9_SubmitDispatch ==
  [][OnSubmitStep =>
       /\ AuthFormSchema(formType(route), form)
       /\ requests' = Append(requests,
            IF formType(route) = "signup"
              THEN [endpoint |-> "/signup", name |-> form.FullName,
                    email |-> form.Email, otp |-> ABSENT, status |-> "pending"]
              ELSE [endpoint |-> "/login", name |-> ABSENT,
                    email |-> form.Email, otp |-> ABSENT, status |-> "pending"])
     ]_vars

C9_Witness ==
  \E i, j \in 1..Len(requests) :
    /\ requests[i].endpoint = "/signup" /\ requests[i].name = "Al"
    /\ requests[j].endpoint = "/login"

\* C10: the OTP modal of the signup form verifies with POST /verify-signup,
\* that of any other form with POST /verify-login; the request carries the
\* email of the submission that opened the modal and the six characters
\* entered.
C10_VerifyDispatch ==
  [][HandleSubmitStep =>
       /\ modalOpener \in 1..Len(requests)
       /\ IsCredential(requests[modalOpener])
       /\ requests[modalOpener].status = "ok"
       /\ Len(otpModal.password) = 6
       /\ requests' = Append(requests,
            [endpoint |-> IF formType(route) = "signup"
                            THEN "/verify-signup" ELSE "/verify-login",
             name |-> ABSENT,
             email |-> requests[modalOpener].email,
             otp |-> otpModal.password,
             status |-> "pending"])
     ]_vars

C10_Witness ==
  \E i \in 1..Len(requests) :
    /\ requests[i].endpoint = "/verify-signup"
    /\ requests[i].otp = "123456"
    /\ requests[i].email = "b@x.io"

\* C12: a rejected createUser / login leaves accountData as it was, sets a
\* non-empty errorMessage and leaves isLoading false; accountData goes from
\* null to a value only in the step in which the awaited request succeeds,
\* and the value holds the account_id returned and the email of that request.
C12_FailedSubmissionFrame ==
  [][/\ \A e \in CredErrors : onSubmitReject(e) =>
          /\ authForm'.accountData = authForm.accountData
          /\ authForm'.errorMessage # ""
          /\ ~authForm'.isLoading
          /\ requests'[credReq[1].idx].status = "failed"
     /\ (authForm.accountData = <<>> /\ authForm'.accountData # <<>>) =>
          /\ credReq # <<>>
          /\ requests[credReq[1].idx].status = "pending"
          /\ requests'[credReq[1].idx].status = "ok"
          /\ authForm'.accountData[1].accountId \in AccountIds
          /\ \E id \in AccountIds :
               onSubmitResolve(id) /\ authForm'.accountData[1].accountId = id
          /\ authForm'.accountData[1].email = requests[credReq[1].idx].email
          /\ ~authForm'.isLoading]_vars

C12_Witness ==
  /\ ModalVisible
  /\ authForm.accountData[1].accountId = "acc1"
  /\ authForm.accountData[1].email = "a@x.io"
  /\ form.Email = "b@x.io"
  /\ \E i, j \in 1..Len(requests) :
       /\ i < j
       /\ IsCredential(requests[i]) /\ requests[i].status = "failed"
       /\ IsCredential(requests[j]) /\ requests[j].status = "ok"
       /\ requests[j].email = "a@x.io"
       /\ modalOpener = j

(***************************************************************************)
(* Properties of OTPModal                                                  *)
(***************************************************************************)
\* the Email prop of the mounted modal
EmailProp == authForm.accountData[1].email

\* C11: a click on Resend OTP with an Email posts to /signup with the name
\* 'Resend' when the form type is signup and to /login otherwise; when the
\* call succeeds the entered OTP is cleared and 'OTP resent successfully!'
\* is shown; when it fails the entered OTP is kept and an error is shown;
\* none of the three steps writes localStorage; without an Email no request
\* is ever issued and isResending stays false.
C11_ResendContract ==
  /\ [][/\ handleResendOtp =>
            /\ localStorage' = localStorage
            /\ IF Truthy(EmailProp)
                 THEN requests' = Append(requests,
                        IF formType(route) = "signup"
                          THEN [endpoint |-> "/signup", name |-> "Resend",
                                email |-> EmailProp, otp |-> ABSENT,
                                status |-> "pending"]
                          ELSE [endpoint |-> "/login", name |-> ABSENT,
                                email |-> EmailProp, otp |-> ABSENT,
                                status |-> "pending"])
                 ELSE UNCHANGED vars
        /\ handleResendOtpResolve =>
            /\ localStorage' = localStorage
            /\ otpModal'.password = ""
            /\ otpModal'.successMessage = "OTP resent successfully!"
            /\ requests'[resendReq[1].idx].status = "ok"
        /\ \A e \in ResendErrors : handleResendOtpReject(e) =>
            /\ localStorage' = localStorage
            /\ otpModal'.password = otpModal.password
            /\ otpModal'.errorMessage # ""
            /\ requests'[resendReq[1].idx].status = "failed"]_vars
  /\ [](ModalMounted /\ ~Truthy(EmailProp) =>
          /\ requests = <<>>
          /\ resendReq = <<>>
          /\ ~otpModal.isResending)

C11_Witness ==
  /\ ModalVisible
  /\ otpModal.password = "123456"
  /\ otpModal.errorMessage = "Network Error"
  /\ ~otpModal.isResending
  /\ \E i, j \in 1..Len(requests) :
       /\ requests[i].endpoint = "/signup"
       /\ requests[i].name = "Resend"
       /\ requests[i].status = "ok"
       /\ requests[j].endpoint = "/signup"
       /\ requests[j].name = "Resend"
       /\ requests[j].status = "failed"

\* C13: a click on Submit issues a verify request exactly when the Email
\* prop is present and six characters are entered; otherwise the step sets
\* the error 'Please enter a valid 6-digit OTP', issues no request, leaves
\* isLoading false and leaves localStorage unchanged.  Every verify request
\* ever issued carries an email and a six-character OTP.
C13_SubmitGuard ==
  /\ [][handleSubmit =>
          IF Truthy(EmailProp) /\ Len(otpModal.password) = 6
            THEN /\ Len(requests') = Len(requests) + 1
                 /\ IsVerify(requests'[Len(requests')])
                 /\ requests'[Len(requests')].email = EmailProp
                 /\ requests'[Len(requests')].otp = otpModal.password
                 /\ otpModal'.isLoading
                 /\ otpModal'.errorMessage = ""
            ELSE /\ otpModal'.errorMessage = "Please enter a valid 6-digit OTP"
                 /\ requests' = requests
                 /\ verifyReqs' = verifyReqs
                 /\ ~otpModal'.isLoading
                 /\ localStorage' = localStorage]_vars
  /\ [](\A i \in 1..Len(requests) :
          IsVerify(requests[i]) =>
            Truthy(requests[i].email) /\ Len(requests[i].otp) = 6)

C13_Witness ==
  /\ ModalVisible
  /\ ~Truthy(EmailProp)
  /\ Len(otpModal.password) = 6
  /\ otpModal.errorMessage = "Please enter a valid 6-digit OTP"
  /\ ~otpModal.isLoading
  /\ requests = <<>>
  /\ getItem(localStorage, "access_token") = NULL

\* C14: once a verification has succeeded (its close timer is armed) the
\* timer eventually fires and the modal is then not shown and the parent's
\* accountData is null; a timer that fires on a mounted modal sets isOpen
\* to false and resets accountData in that step, and so does a click on the
\* close icon.
C14_ModalCloses ==
  /\ (timers # {}) ~>
       (timers = {} /\ ~ModalVisible /\ authForm.accountData = <<>>)
  /\ [][/\ handleClose =>
            ~ModalVisible' /\ authForm'.accountData = <<>>
        /\ \A t \in timers : (closeTimer(t) /\ t.formLive) =>
            ~ModalVisible' /\ authForm'.accountData = <<>>]_vars

C14_Witness ==
  /\ timers = {}
  /\ onSuccess = "none"
  /\ route \in {"/signin", "/signup"}
  /\ authForm.accountData = <<>>
  /\ Truthy(getItem(localStorage, "access_token"))
  /\ \E i \in 1..Len(requests) :
       IsVerify(requests[i]) /\ requests[i].status = "ok"

(***************************************************************************)
(* Properties of the dashboard                                             *)
(***************************************************************************)
Range(seq) == {seq[i] : i \in 1..Len(seq)}

\* the number a Min Stars entry denotes: digits, optionally e and an exponent
enteredNumber(str) ==
  LET n    == digitPrefix(str)
      rest == SubSeq(str, n + 1, Len(str))
  IN  IF rest = <<>> THEN digitsValue(str)
      ELSE digitsValue(SubSeq(str, 1, n)) * 10 ^ digitsValue(Tail(rest))

\* the predicate the claim assigns to a state of the filters
PassesEveryFilter(p) ==
  /\ searchTerm # <<>> =>
       \/ includes(toLowerCase(p.name), toLowerCase(searchTerm))
       \/ p.description # None
            /\ includes(toLowerCase(p.description[1]), toLowerCase(searchTerm))
       \/ includes(toLowerCase(p.fullName), toLowerCase(searchTerm))
       \/ \E i \in 1..Len(p.topics) :
            includes(toLowerCase(p.topics[i]), toLowerCase(searchTerm))
  /\ filters.language # "" => p.primaryLanguage = filters.language
  /\ filters.minStars # <<>> => p.health.stars >= enteredNumber(filters.minStars)
  /\ filters.recentActivity = "week" =>
       (p.health.lastCommitDate # None
          /\ p.health.lastCommitDate[1] > clock.now - 7 * Day)
  /\ filters.recentActivity = "month" =>
       (p.health.lastCommitDate # None
          /\ p.health.lastCommitDate[1] > clock.now - 30 * Day)
  /\ activeQuickFilter = "Trending" => isTrending(p, clock)
  /\ activeQuickFilter = "Good First Issues" => hasGoodFirstIssues(p)
  /\ activeQuickFilter = "Active Today" => isActiveToday(p, clock)
  /\ activeQuickFilter = "Hidden Gems" => isHiddenGem(p)

\* C5: a repository is in the filtered list if and only if it is loaded and
\* satisfies every predicate that is set: search term, language, stars at
\* least the Min Stars entry, last commit after the cutoff, quick filter.
C5_FilterIsConjunction ==
  /\ Range(filteredRepositories) =
       {p \in Range(repositories) : PassesEveryFilter(p)}
  /\ Range(filteredRepositoriesState) =
       {p \in Range(repositories) : PassesEveryFilter(p)}

\* C6: while a quick filter is active the filtered list is the same sequence
\* for sortBy 'stars' and for sortBy 'updated'.
C6_QuickFilterOverridesSort ==
  activeQuickFilter # "" =>
    \A sortBy \in {"stars", "updated"} :
      /\ filteredRepositories =
           filteredRepositoriesMemo(repositories, searchTerm,
             [filters EXCEPT !.sortBy = sortBy], activeQuickFilter, clock)
      /\ filteredRepositoriesState =
           filteringEffect(repositories, searchTerm,
             [filters EXCEPT !.sortBy = sortBy], activeQuickFilter, clock)

C6_Witness ==
  /\ activeQuickFilter = "Active Today"
  /\ Len(filteredRepositories) = 2
  /\ filteredRepositories[1].health.stars < filteredRepositories[2].health.stars
  /\ filteredRepositoriesState = filteredRepositories
  /\ byStars(filteredRepositories) # filteredRepositories
  /\ filters.sortBy = "stars"

\* C7: a handleFilterChange step sets the named field to the value chosen,
\* leaves the other filter fields, the search term and the repositories
\* unchanged, and leaves activeQuickFilter empty.
C7_FilterChangeFrame ==
  [][\A name \in DOMAIN initialFilters :
       \A value \in FilterValues(name) :
         handleFilterChange(name, value) =>
           /\ activeQuickFilter' = ""
           /\ filters'[name] = value
           /\ \A other \in DOMAIN initialFilters \ {name} :
                filters'[other] = filters[other]
           /\ searchTerm' = searchTerm
           /\ repositories' = repositories]_vars

C7_Witness ==
  /\ activeQuickFilter = ""
  /\ filters.language = "Python"
  /\ filters.sortBy = "updated"
  /\ filters.minStars = <<>>
  /\ searchTerm # <<>>
  /\ repositories # <<>>

\* C15: activeQuickFilter is always '' or one quick filter label; a click on
\* the active quick filter sets it to '', a click on any other sets it to
\* the label clicked; the click leaves searchTerm, the advanced filters and
\* the repositories unchanged.
C15_QuickFilterToggle ==
  /\ [](/\ activeQuickFilter \in QuickFilters \cup {""}
        /\ \A label \in QuickFilters :
             setActiveQuickFilterUpdater(activeQuickFilter, label) =
               (IF activeQuickFilter = label THEN "" ELSE label))
  /\ [][\A label \in QuickFilters :
          handleQuickFilterClick(label) =>
            /\ activeQuickFilter' =
                 (IF activeQuickFilter = label THEN "" ELSE label)
            /\ searchTerm' = searchTerm
            /\ filters' = filters
            /\ repositories' = repositories]_vars

C15_Witness ==
  /\ activeQuickFilter = "Good First Issues"
  /\ searchTerm # <<>>
  /\ filters.language = "Python"
  /\ filters.sortBy = "updated"
  /\ Len(repositories) = 2

NonIncreasing(seq, key(_)) ==
  \A i \in 1..(Len(seq) - 1) : key(seq[i]) >= key(seq[i + 1])

stars(p) == p.health.stars

\* the last-commit time the claim assigns: 0 for a null date
lastCommitTime(p) ==
  IF p.health.lastCommitDate = None THEN 0 ELSE p.health.lastCommitDate[1]

\* C16: a Clear All step ends with searchTerm '', filters language '',
\* minStars '', recentActivity 'any', sortBy 'stars', activeQuickFilter '',
\* and with both filtered lists holding every loaded repository once, in
\* non-increasing star order; a Clear All step from such a state changes
\* nothing.
C16_ClearAllRestores ==
  [][handleClearFilters =>
       /\ searchTerm' = <<>>
       /\ filters' = [language |-> "", minStars |-> <<>>,
                      recentActivity |-> "any", sortBy |-> "stars"]
       /\ activeQuickFilter' = ""
       /\ repositories' = repositories
       /\ \A list \in {filteredRepositories', filteredRepositoriesState'} :
            /\ Len(list) = Len(repositories)
            /\ Range(list) = Range(repositories)
            /\ NonIncreasing(list, stars)
       /\ (searchTerm = <<>> /\ filters = initialFilters
             /\ activeQuickFilter = "") => UNCHANGED vars]_vars

C16_Witness ==
  /\ searchTerm = <<>>
  /\ filters = initialFilters
  /\ activeQuickFilter = ""
  /\ Len(repositories) = 2
  /\ stars(repositories[1]) < stars(repositories[2])
  /\ Len(filteredRepositories) = 2
  /\ filteredRepositories[1] = repositories[2]
  /\ filteredRepositoriesState = filteredRepositories

\* C17: with no quick filter active both filtered lists are in non-increasing
\* star order when sortBy is 'stars', and in non-increasing last-commit time
\* when sortBy is 'updated', a null lastCommitDate counting as time 0, so
\* that no repository without a date precedes one with a date.
C17_DefaultSortOrder ==
  activeQuickFilter = "" =>
    \A list \in {filteredRepositories, filteredRepositoriesState} :
      /\ filters.sortBy = "stars" => NonIncreasing(list, stars)
      /\ filters.sortBy = "updated" =>
           /\ NonIncreasing(list, lastCommitTime)
           /\ \A i, j \in 1..Len(list) :
                (i < j /\ list[i].health.lastCommitDate = None)
                  => list[j].health.lastCommitDate = None

C17_Witness ==
  /\ activeQuickFilter = ""
  /\ filters.sortBy = "updated"
  /\ Len(filteredRepositories) = 2
  /\ filteredRepositories[1].health.lastCommitDate # None
  /\ filteredRepositories[2].health.lastCommitDate = None
  /\ repositories[1].health.lastCommitDate = None
  /\ stars(filteredRepositories[1]) > stars(filteredRepositories[2])
  /\ filteredRepositoriesState = filteredRepositories

(***************************************************************************)
(* Properties of the insight modal                                         *)
(***************************************************************************)
\* C18: opening the modal issues one request and leaves insights and error
\* null and isLoading true; closing it issues none; when a request settles
\* and no other request is in flight, isLoading is false and exactly one of
\* insights and error is non-null, error unless the response parsed.
C18_InsightRequest ==
  [][/\ \A repo \in SampleRepositories :
          handleOpenModal(repo) =>
            /\ Cardinality(fetches') = Cardinality(fetches) + 1
            /\ fetchCount' = fetchCount + 1
            /\ insightModal' = [insights |-> None, isLoading |-> TRUE,
                                error |-> None]
     /\ handleCloseModal => (fetches' = fetches /\ fetchCount' = fetchCount)
     /\ \A q \in fetches, response \in Responses :
          (fetchInsights(q, response) /\ fetches' = {}) =>
            /\ ~insightModal'.isLoading
            /\ (insightModal'.insights # None) # (insightModal'.error # None)
            /\ (insightModal'.error # None) <=> (response # "parsed")]_vars

\* C19: while the modal is open for a repository, a request issued for
\* another repository that settles changes none of insights, error and
\* isLoading.
C19_NoStaleResponse ==
  [][\A q \in fetches, response \in Responses :
       (/\ fetchInsights(q, response)
        /\ isModalOpen
        /\ selectedRepo # Some(q.repository)) =>
         insightModal' = insightModal]_vars

(***************************************************************************)
(* Properties of formatDate                                                *)
(***************************************************************************)
\* C8: formatDate returns 'N/A' for null and, for every other date, the
\* label of the bucket its whole-day age d falls in: Today (d = 0),
\* Yesterday (d = 1), d days ago (2..6), d/7 weeks ago (7..29), d/30 months
\* ago (30 and more).
C8_EveryDateInOneBucket ==
  fdResult # None =>
    IF fdInput = None THEN fdResult[1] = "N/A"
    ELSE LET d == (clock.now - fdInput[1]) \div Day IN
      \/ d = 0 /\ fdResult[1] = "Today"
      \/ d = 1 /\ fdResult[1] = "Yesterday"
      \/ d >= 2 /\ d <= 6 /\ fdResult[1] = ToString(d) \o " days ago"
      \/ d >= 7 /\ d <= 29 /\ fdResult[1] = ToString(d \div 7) \o " weeks ago"
      \/ d >= 30 /\ fdResult[1] = ToString(d \div 30) \o " months ago"

====
